---- MODULE Spec2Model ----
(***************************************************************************)
(* The GOES-16 RGB composite notebook (GOES_RGB_Image.ipynb): the kernel   *)
(* namespace, one call of make_RGB_data from cell 6 and the rendering cell *)
(* 7, with interpolate_red_channel as scipy's interp2d computes it.        *)
(*                                                                         *)
(* Reflectance samples are fixed-point integers in units of 1e-4, so the   *)
(* clipping threshold 0.0001 is 1 and the value 1.0 is 10000.  A grid is a *)
(* sequence of rows, row r holding the samples of y[r]; its shape is       *)
(* (Len(y), Len(x)).                                                       *)
(***************************************************************************)
EXTENDS Integers, Sequences, FiniteSets, TLC

VARIABLES pc, locals, globals, err, rendered, xrKind, server, radar

vars == <<pc, locals, globals, err, rendered, xrKind, server, radar>>

(* ------------------------------ bounds -------------------------------- *)
\* largest number of rows/columns of a fetched channel (make_RGB_data runs)
MaxDim == 4
\* capture times offered by a catalog are 1..MaxTime
MaxTime == 2
\* longest source axis drawn for interpolate_red_channel on its own
MaxSrcLen == 3
\* most datasets a radar composite catalog lists
MaxNames == 3

(* ------------------------- program constants -------------------------- *)
red_channel == 2
green_channel == 3
blue_channel == 1
\* the idx argument of cell 6: make_RGB_data(date, 'Mesoscale-1', -2)
CellIdx == -2
\* 0.0001 in units of 1e-4
Epsilon == 1
\* the value 1 written by the clipping statements, in units of 1e-4
ClipFill == 10000
\* fill_value=0 of interp2d
InterpFill == 0
\* the weights 0.1, 0.45, 0.45 of the fake green channel, in hundredths
WGreen == 10
WBlue == 45
WRed == 45

\* CompositeRadar: the subsetting strides and the masking threshold in dBz
xstride == 10
ystride == 10
MaskThreshold == -30

(* ------------------------------ helpers ------------------------------- *)
Reverse(s) == [i \in 1..Len(s) |-> s[Len(s) + 1 - i]]

Shape(g) == <<Len(g), IF Len(g) = 0 THEN 0 ELSE Len(g[1])>>

Samples(g) == {g[r][c] : r \in 1..Len(g), c \in 1..(IF Len(g) = 0 THEN 0 ELSE Len(g[1]))}

SetMin(S) == CHOOSE m \in S : \A v \in S : m <= v

SetMax(S) == CHOOSE m \in S : \A v \in S : m >= v

\* np.argsort of an axis of distinct coordinates
ArgSort(s) ==
  [k \in 1..Len(s) |->
     CHOOSE i \in 1..Len(s) : Cardinality({j \in 1..Len(s) : s[j] < s[i]}) = k - 1]

\* np.sort
NpSort(s) == [k \in 1..Len(s) |-> s[ArgSort(s)[k]]]

\* np.all(x[1:] >= x[:-1])
IsAscending(s) == \A i \in 1..(Len(s) - 1) : s[i + 1] >= s[i]

StrictlyUp(s) == \A i \in 1..(Len(s) - 1) : s[i + 1] > s[i]

StrictlyDown(s) == \A i \in 1..(Len(s) - 1) : s[i + 1] < s[i]

RECURSIVE Newton(_, _)
Newton(n, x) ==
  LET y == (x + (n \div x)) \div 2
  IN  IF y >= x THEN x ELSE Newton(n, y)

\* floor of the square root
ISqrt(n) == IF n < 2 THEN n ELSE Newton(n, n)

(* --------------------- channel datasets (loader) ---------------------- *)
\* what remote_access(service='OPENDAP', use_xarray=True) hands back: the
\* recorded run got an xarray.Dataset; a labelled array (DataArray) is the
\* other object the notebook's duck-typed code is written against
Kinds == {"Dataset", "DataArray"}

NoDs == [kind |-> "none", channel |-> 0, x |-> <<>>, y |-> <<>>, grid |-> <<>>, time |-> 0]

MkDs(kind, channel, x, y, grid, time) ==
  [kind |-> kind, channel |-> channel, x |-> x, y |-> y, grid |-> grid, time |-> time]

\* the projection descriptor metpy derives from a channel's grid mapping
CartopyCrs(channel) == <<"crs", channel>>

(* ------------------- scipy.interpolate.interp2d ----------------------- *)
\* interp2d.__init__ on a rectangular grid: an axis that is not ascending is
\* sorted and the grid permuted with it; the envelope is [min, max]
Interp2dInit(x, y, z) ==
  LET jx == IF IsAscending(x) THEN [k \in 1..Len(x) |-> k] ELSE ArgSort(x)
      jy == IF IsAscending(y) THEN [k \in 1..Len(y) |-> k] ELSE ArgSort(y)
  IN  [x |-> [k \in 1..Len(x) |-> x[jx[k]]],
       y |-> [k \in 1..Len(y) |-> y[jy[k]]],
       z |-> [r \in 1..Len(y) |-> [c \in 1..Len(x) |-> z[jy[r]][jx[c]]]]]

\* the knot interval of a sorted axis that holds t
CellIndex(ax, t) ==
  LET below == {i \in 1..(Len(ax) - 1) : ax[i] <= t}
  IN  IF below = {} THEN 1 ELSE SetMax(below)

\* FITPACK evaluates outside the knots at the nearest boundary
Clamp(ax, t) ==
  IF t < ax[1] THEN ax[1] ELSE IF t > ax[Len(ax)] THEN ax[Len(ax)] ELSE t

\* the degree-1 interpolating spline (kind='linear', s=0) at (xt, yt)
Bilinear(f, xt, yt) ==
  LET cx == Clamp(f.x, xt)
      cy == Clamp(f.y, yt)
      i  == CellIndex(f.x, cx)
      j  == CellIndex(f.y, cy)
      x0 == f.x[i]
      x1 == f.x[i + 1]
      y0 == f.y[j]
      y1 == f.y[j + 1]
      num == f.z[j][i] * (x1 - cx) * (y1 - cy)
             + f.z[j][i + 1] * (cx - x0) * (y1 - cy)
             + f.z[j + 1][i] * (x1 - cx) * (cy - y0)
             + f.z[j + 1][i + 1] * (cx - x0) * (cy - y0)
  IN  num \div ((x1 - x0) * (y1 - y0))

OutOfBounds(ax, t) == t < ax[1] \/ t > ax[Len(ax)]

\* as Interp2dCall with the fill_value argument forgotten: outside the
\* envelope the spline's boundary value is kept
Interp2dCall_NoFill(f, x_new, y_new) ==
  LET sx == NpSort(x_new)
      sy == NpSort(y_new)
  IN  [r \in 1..Len(sy) |-> [c \in 1..Len(sx) |-> Bilinear(f, sx[c], sy[r])]]

\* interp2d.__call__ (assume_sorted=False): the requested coordinates are
\* sorted first, rows and columns outside the envelope get fill_value
Interp2dCall(f, x_new, y_new) ==
  LET sx == NpSort(x_new)
      sy == NpSort(y_new)
  IN  [r \in 1..Len(sy) |->
         [c \in 1..Len(sx) |->
            IF OutOfBounds(f.x, sx[c]) \/ OutOfBounds(f.y, sy[r])
            THEN InterpFill
            ELSE Bilinear(f, sx[c], sy[r])]]

\* as interpolate_red_channel with the row reversal [::-1] left out
interpolate_red_channel_NoFlip(red_ds, resampled_ds) ==
  LET x_new == resampled_ds.x
      y_new == resampled_ds.y
  IN  IF red_ds.kind # "DataArray"
      THEN [exc |-> "TypeError", x |-> <<>>, y |-> <<>>, grid |-> <<>>]
      ELSE LET f == Interp2dInit(red_ds.x, red_ds.y, red_ds.grid)
           IN  [exc |-> "none", x |-> x_new, y |-> y_new,
                grid |-> Interp2dCall(f, x_new, y_new)]

\* interpolate_red_channel(red_ds, resampled_ds): np.asarray(red_ds) inside
\* interp2d raises TypeError for an xarray.Dataset
interpolate_red_channel(red_ds, resampled_ds) ==
  LET x_new == resampled_ds.x
      y_new == resampled_ds.y
  IN  IF red_ds.kind # "DataArray"
      THEN [exc |-> "TypeError", x |-> <<>>, y |-> <<>>, grid |-> <<>>]
      ELSE LET f == Interp2dInit(red_ds.x, red_ds.y, red_ds.grid)
               red_interpolated == Interp2dCall(f, x_new, y_new)
           IN  [exc |-> "none", x |-> x_new, y |-> y_new,
                grid |-> Reverse(red_interpolated)]

(* -------------------- open_dataset and the catalog --------------------- *)
\* a catalog listing: the capture times of its datasets in the order the
\* catalog lists them
Listings ==
  UNION {{l \in [1..n -> 1..MaxTime] : \A i, j \in 1..n : i # j => l[i] # l[j]} :
           n \in 0..MaxTime}

\* Python's seq[idx]: whether idx is in range, and the 1-based position
PyIndexOK(n, idx) == IF idx < 0 THEN -idx <= n ELSE idx < n

PyIndex(n, idx) == IF idx < 0 THEN n + idx + 1 ELSE idx + 1

\* as open_dataset with the green channel opened one position later than
\* the other two
open_dataset_GreenOffByOne(reachable, listing, payload, channel, idx, kind) ==
  LET i == IF channel = green_channel THEN idx + 1 ELSE idx
  IN  IF ~reachable
      THEN [exc |-> "HTTPError", ds |-> NoDs]
      ELSE IF ~PyIndexOK(Len(listing), i)
      THEN [exc |-> "IndexError", ds |-> NoDs]
      ELSE [exc |-> "none",
            ds  |-> MkDs(kind, channel, payload.x, payload.y, payload.grid,
                         listing[PyIndex(Len(listing), i)])]

\* open_dataset(date, channel, region, idx): TDSCatalog(url) fails when the
\* server cannot be reached, cat.datasets[idx] raises IndexError when the
\* listing is too short, else the chosen dataset is opened remotely
open_dataset(reachable, listing, payload, channel, idx, kind) ==
  IF ~reachable
  THEN [exc |-> "HTTPError", ds |-> NoDs]
  ELSE IF ~PyIndexOK(Len(listing), idx)
  THEN [exc |-> "IndexError", ds |-> NoDs]
  ELSE [exc |-> "none",
        ds  |-> MkDs(kind, channel, payload.x, payload.y, payload.grid,
                     listing[PyIndex(Len(listing), idx)])]

\* coordinate axes of an n-point channel over the sector: x ascending and
\* y descending, as GOES fixed-grid files store them
AxisX(n) == [i \in 1..n |-> (i - 1) * (12 \div (n - 1))]

AxisY(n) == Reverse(AxisX(n))

ConstGrid(n, v) == [r \in 1..n |-> [c \in 1..n |-> v]]

\* samples at, below and above the clipping threshold
MixedGrid(n) ==
  [r \in 1..n |-> [c \in 1..n |->
     IF r = 1 THEN 0 ELSE IF c = 1 THEN Epsilon ELSE IF c = 2 THEN 2 ELSE 40000]]

\* the Sectorized_CMI grids a channel's datasets may hold
ChannelGrids(channel, n) ==
  IF channel = red_channel THEN {ConstGrid(n, 40000), MixedGrid(n)}
  ELSE IF channel = blue_channel THEN {ConstGrid(n, 160000), MixedGrid(n)}
  ELSE {ConstGrid(n, 0), ConstGrid(n, 40000)}

Payloads(channel) ==
  UNION {{[x |-> AxisX(n), y |-> AxisY(n), grid |-> g] : g \in ChannelGrids(channel, n)} :
           n \in 2..MaxDim}

\* what a catalog request for a channel can be answered with: server holds
\* the three catalogs, indexed by channel number, while they stay as they
\* are for the length of a call; it is <<>> when the THREDDS server is free
\* to list anything at each request
Served(channel) ==
  IF server = <<>>
  THEN {[listing |-> l, payload |-> p] : l \in Listings, p \in Payloads(channel)}
  ELSE {server[channel]}

(* --------------------- namespaces of the notebook --------------------- *)
\* the globals of the CompositeRadar notebook before its cell 2
NoRadar ==
  [printed |-> <<>>, names |-> <<>>, latest |-> <<>>, exc |-> "none",
   x |-> <<>>, y |-> <<>>, data |-> <<>>, mask |-> <<>>]

LocalNames ==
  {"red_ds", "blue_ds", "green_ds", "red_dat", "blue_dat", "green_dat", "proj",
   "x", "y", "red_data", "blue_data", "green_data", "rgb_data", "time"}

\* the frame of make_RGB_data on entry: no local is bound; ran lists the
\* statements of lines 137-157 that completed; ret is the returned tuple
NoLocals ==
  [bound |-> {}, exc |-> "none", ran |-> <<>>, returned |-> FALSE, ret |-> <<>>,
   red_ds |-> NoDs, blue_ds |-> NoDs, green_ds |-> NoDs,
   red_dat |-> <<>>, blue_dat |-> <<>>, green_dat |-> <<>>, proj |-> <<>>,
   x |-> <<>>, y |-> <<>>,
   red_data |-> <<>>, blue_data |-> <<>>, green_data |-> <<>>,
   rgb_data |-> <<>>, time |-> 0]

\* the kernel's global names the cells 6 and 7 use
NoGlobals ==
  [bound |-> {}, timestamp |-> 0, x |-> <<>>, y |-> <<>>, proj_var |-> <<>>,
   rgb_data |-> <<>>, proj |-> <<>>]

Bind(L, name, v) == [L EXCEPT ![name] = v, !.bound = @ \cup {name}]

Raise(L, e) == [L EXCEPT !.exc = e]

Ran(L, tag) == [L EXCEPT !.ran = Append(@, tag)]

(* ------------- the statements of make_RGB_data, lines 137-157 --------- *)
ClipGrid(g) ==
  [r \in 1..Len(g) |-> [c \in 1..Len(g[r]) |->
     IF g[r][c] <= Epsilon THEN ClipFill ELSE g[r][c]]]

\* np.sqrt of a sample in units of 1e-4; a negative sample gives nan (-1)
SqrtSample(v) == IF v < 0 THEN -1 ELSE ISqrt(v * 10000)

SqrtGrid(g) == [r \in 1..Len(g) |-> [c \in 1..Len(g[r]) |-> SqrtSample(g[r][c])]]

FakeGreen(g, b, r) ==
  [i \in 1..Len(g) |-> [j \in 1..Len(g[i]) |->
     (g[i][j] * WGreen + b[i][j] * WBlue + r[i][j] * WRed) \div 100]]

\* np.dstack([red, green, blue]): channel-last
Dstack(r, g, b) ==
  [i \in 1..Len(r) |-> [j \in 1..Len(r[i]) |-> <<r[i][j], g[i][j], b[i][j]>>]]

\* band[np.where(band <= 0.0001)] = 1
ClipStmt(L, band) ==
  IF L.exc # "none" THEN L
  ELSE IF band \notin L.bound THEN Raise(L, "UnboundLocalError")
  ELSE Ran(Bind(L, band, ClipGrid(L[band])), <<"clip", band>>)

\* band = np.sqrt(band)
SqrtStmt(L, band) ==
  IF L.exc # "none" THEN L
  ELSE IF band \notin L.bound THEN Raise(L, "UnboundLocalError")
  ELSE Ran(Bind(L, band, SqrtGrid(L[band])), <<"sqrt", band>>)

\* green_data = green_data * 0.1 + blue_data * 0.45 + red_data * 0.45
SynthStmt(L) ==
  IF L.exc # "none" THEN L
  ELSE IF ~({"green_data", "blue_data", "red_data"} \subseteq L.bound)
  THEN Raise(L, "UnboundLocalError")
  ELSE IF Shape(L.green_data) # Shape(L.blue_data) \/ Shape(L.blue_data) # Shape(L.red_data)
  THEN Raise(L, "ValueError")
  ELSE Ran(Bind(L, "green_data", FakeGreen(L.green_data, L.blue_data, L.red_data)),
           <<"synth", "green_data">>)

\* rgb_data = np.dstack([red_data, green_data, blue_data])
StackStmt(L) ==
  IF L.exc # "none" THEN L
  ELSE IF ~({"green_data", "blue_data", "red_data"} \subseteq L.bound)
  THEN Raise(L, "UnboundLocalError")
  ELSE IF Shape(L.green_data) # Shape(L.blue_data) \/ Shape(L.blue_data) # Shape(L.red_data)
  THEN Raise(L, "ValueError")
  ELSE Ran(Bind(L, "rgb_data", Dstack(L.red_data, L.green_data, L.blue_data)),
           <<"stack", "rgb_data">>)

\* x = green_ds.x; y = green_ds.y; time = strptime(green_ds.start_date_time)
AxesTimeStmt(L) ==
  IF L.exc # "none" THEN L
  ELSE Ran(Bind(Bind(Bind(L, "x", L.green_ds.x), "y", L.green_ds.y),
                "time", L.green_ds.time), <<"axes", "green_ds">>)

\* return time, x, y, proj_var, rgb_data: proj_var is no local of the
\* function, so it is looked up among the kernel's globals G
ReturnStmt(L, G) ==
  IF L.exc # "none" THEN L
  ELSE IF "proj_var" \notin G.bound THEN Raise(L, "NameError")
  ELSE [L EXCEPT !.returned = TRUE,
                 !.ret = <<L.time, L.x, L.y, G.proj_var, L.rgb_data>>]

\* lines 137-157 in order
CombineBody(L, G) ==
  LET c1 == ClipStmt(L, "red_data")
      c2 == ClipStmt(c1, "blue_data")
      c3 == ClipStmt(c2, "green_data")
      s1 == SqrtStmt(c3, "red_data")
      s2 == SqrtStmt(s1, "blue_data")
      s3 == SqrtStmt(s2, "green_data")
      g  == SynthStmt(s3)
      k  == StackStmt(g)
      a  == AxesTimeStmt(k)
  IN  ReturnStmt(a, G)

\* as AssignCell6 with the failure swallowed: the targets are bound to
\* whatever the frame held when the call ended
AssignCell6_Partial(G, L) ==
  [G EXCEPT !.bound = @ \cup {"timestamp", "x", "y", "proj_var", "rgb_data"},
            !.timestamp = L.time, !.x = L.x, !.y = L.y,
            !.proj_var = L.proj, !.rgb_data = L.red_data]

\* cell 6: timestamp, x, y, proj_var, rgb_data = make_RGB_data(...); the
\* targets are bound only when the call returned
AssignCell6(G, L) ==
  IF ~L.returned THEN G
  ELSE [G EXCEPT !.bound = @ \cup {"timestamp", "x", "y", "proj_var", "rgb_data"},
                 !.timestamp = L.ret[1], !.x = L.ret[2], !.y = L.ret[3],
                 !.proj_var = L.ret[4], !.rgb_data = L.ret[5]]

(* ------------------------------ actions ------------------------------- *)
Init ==
  /\ pc = "cell6"
  /\ locals = NoLocals
  /\ globals = NoGlobals
  /\ err = "none"
  /\ rendered = <<>>
  /\ xrKind \in Kinds
  /\ server = <<>>
  /\ radar = NoRadar

\* a cell that raised leaves the kernel with its globals as they were
Fail(e) ==
  /\ pc' = "raised"
  /\ err' = e
  /\ UNCHANGED <<globals, rendered, xrKind, server, radar>>

\* cell 6 is run (again): date = datetime.utcnow(), then make_RGB_data is
\* entered with a fresh frame
StartCall ==
  /\ pc \in {"cell6", "raised", "cell7"}
  /\ pc' = "open_red"
  /\ locals' = NoLocals
  /\ err' = "none"
  /\ UNCHANGED <<globals, rendered, xrKind, server, radar>>

\* lines 126-128: one open_dataset call
Fetch(at, name, channel, next) ==
  /\ pc = at
  /\ \E reachable \in BOOLEAN, c \in Served(channel) :
       LET r == open_dataset(reachable, c.listing, c.payload, channel, CellIdx, xrKind)
       IN  IF r.exc = "none"
           THEN /\ locals' = Bind(locals, name, r.ds)
                /\ pc' = next
                /\ UNCHANGED <<globals, err, rendered, xrKind, server, radar>>
           ELSE /\ locals' = Raise(locals, r.exc)
                /\ Fail(r.exc)

OpenRed == Fetch("open_red", "red_ds", red_channel, "open_blue")

OpenBlue == Fetch("open_blue", "blue_ds", blue_channel, "open_green")

OpenGreen == Fetch("open_green", "green_ds", green_channel, "parse")

\* lines 130-133: parse_cf('Sectorized_CMI') of each dataset, and the
\* projection of the green channel
ParseCF ==
  /\ pc = "parse"
  /\ locals' = Bind(Bind(Bind(Bind(locals, "red_dat", locals.red_ds.grid),
                              "blue_dat", locals.blue_ds.grid),
                         "green_dat", locals.green_ds.grid),
                    "proj", CartopyCrs(locals.green_ds.channel))
  /\ pc' = "resample"
  /\ UNCHANGED <<globals, err, rendered, xrKind, server, radar>>

\* line 135: x, y, red_data = interpolate_red_channel(red_ds, blue_ds)
Resample ==
  /\ pc = "resample"
  /\ LET r == interpolate_red_channel(locals.red_ds, locals.blue_ds)
     IN  IF r.exc = "none"
         THEN /\ locals' = Bind(Bind(Bind(locals, "x", r.x), "y", r.y), "red_data", r.grid)
              /\ pc' = "combine"
              /\ UNCHANGED <<globals, err, rendered, xrKind, server, radar>>
         ELSE /\ locals' = Raise(locals, r.exc)
              /\ Fail(r.exc)

\* lines 137-157 and the assignment of cell 6 (line 185)
Combine ==
  /\ pc = "combine"
  /\ LET L == CombineBody(locals, globals)
     IN  /\ locals' = L
         /\ globals' = AssignCell6(globals, L)
         /\ pc' = IF L.returned THEN "returned" ELSE "raised"
         /\ err' = L.exc
         /\ UNCHANGED <<rendered, xrKind, server, radar>>

\* cell 7 (lines 194-198): add_subplot(projection=proj) and
\* imshow(rgb_data, extent=(x.min(), ...)) read the kernel's globals
Cell7 ==
  /\ pc \in {"raised", "returned"}
  /\ pc' = "cell7"
  /\ IF {"proj", "rgb_data", "x", "y"} \subseteq globals.bound
     THEN /\ rendered' = globals.rgb_data
          /\ err' = "none"
     ELSE /\ rendered' = rendered
          /\ err' = "NameError"
  /\ UNCHANGED <<locals, globals, xrKind, server, radar>>

Next ==
  \/ StartCall
  \/ OpenRed
  \/ OpenBlue
  \/ OpenGreen
  \/ ParseCF
  \/ Resample
  \/ Combine
  \/ Cell7

Spec == Init /\ [][Next]_vars

(* ------------- interpolate_red_channel on its own inputs -------------- *)
UpAxis(lo, n, step) == [i \in 1..n |-> lo + (i - 1) * step]

\* source axes: strictly monotonic, spacing 2, either direction
SrcAxes ==
  UNION {{UpAxis(0, n, 2), Reverse(UpAxis(0, n, 2))} : n \in 2..MaxSrcLen}

\* strictly finer axes (spacing 1) over the envelope of a, reaching one
\* point beyond it at either end or not, in either direction
FineAxes(a) ==
  LET m == SetMin({a[i] : i \in 1..Len(a)})
      M == SetMax({a[i] : i \in 1..Len(a)})
  IN  UNION {{UpAxis(m - lo, (M - m) + lo + hi + 1, 1),
              Reverse(UpAxis(m - lo, (M - m) + lo + hi + 1, 1))} :
               lo \in 0..1, hi \in 0..1}

TargetAxes(a) == {a} \cup FineAxes(a)

\* source grids of shape (ny, nx): all samples distinct and positive, a
\* single peak, and one with zeros on the diagonal
SrcGrids(ny, nx) ==
  {[r \in 1..ny |-> [c \in 1..nx |-> 4 * ((r - 1) * nx + c) + 4]],
   [r \in 1..ny |-> [c \in 1..nx |-> IF r = 1 /\ c = 1 THEN 16 ELSE 4]],
   [r \in 1..ny |-> [c \in 1..nx |-> IF r = c THEN 0 ELSE 8]]}

InterpInit ==
  /\ pc = "resample"
  /\ xrKind \in Kinds
  /\ \E sx \in SrcAxes, sy \in SrcAxes :
       \E g \in SrcGrids(Len(sy), Len(sx)), tx \in TargetAxes(sx), ty \in TargetAxes(sy) :
         locals = Bind(Bind(NoLocals,
                            "red_ds", MkDs(xrKind, red_channel, sx, sy, g, 1)),
                       "blue_ds", MkDs(xrKind, blue_channel, tx, ty,
                                       [r \in 1..Len(ty) |-> [c \in 1..Len(tx) |-> 0]], 1))
  /\ globals = NoGlobals
  /\ err = "none"
  /\ rendered = <<>>
  /\ server = <<>>
  /\ radar = NoRadar

InterpNext == Resample

InterpSpec == InterpInit /\ [][InterpNext]_vars

(* ======================= properties of the code ======================= *)
\* line 135 has completed: x, y and red_data hold the resampler's result
Resampled == pc = "combine" /\ "red_data" \in locals.bound

SameAxes ==
  /\ locals.blue_ds.x = locals.red_ds.x
  /\ locals.blue_ds.y = locals.red_ds.y

AbsDiff(a, b) == IF a >= b THEN a - b ELSE b - a

\* every spacing of axis t is smaller than every spacing of axis s
StrictlyFiner(t, s) ==
  \A i \in 1..(Len(t) - 1), j \in 1..(Len(s) - 1) :
    AbsDiff(t[i + 1], t[i]) < AbsDiff(s[j + 1], s[j])

AxisValues(a) == {a[i] : i \in 1..Len(a)}

InEnvelope(a, v) == SetMin(AxisValues(a)) <= v /\ v <= SetMax(AxisValues(a))

\* the returned grid, read with the axes returned beside it: sample [r][c]
\* lies at (x[c], y[r]); inside the source envelope it is within the range
\* of the source, outside it is the fill value
RangeOrFill ==
  \A r \in 1..Len(locals.red_data) : \A c \in 1..Len(locals.red_data[r]) :
    LET v == locals.red_data[r][c]
    IN  IF InEnvelope(locals.red_ds.x, locals.x[c]) /\ InEnvelope(locals.red_ds.y, locals.y[r])
        THEN /\ SetMin(Samples(locals.red_ds.grid)) <= v
             /\ v <= SetMax(Samples(locals.red_ds.grid))
        ELSE v = InterpFill

CallOver == pc \in {"raised", "returned", "cell7"}

\* the three fetches and the resampling succeeded: the call went on to the
\* statements of lines 137-157
CollaboratorsOK ==
  CallOver /\ {"red_ds", "blue_ds", "green_ds", "red_data"} \subseteq locals.bound

BandNames == {"red_data", "blue_data", "green_data"}

\* the samples a band holds when the clipping step starts
BandInput(band) ==
  IF band = "red_data" THEN interpolate_red_channel(locals.red_ds, locals.blue_ds).grid
  ELSE IF band = "blue_data" THEN locals.blue_dat
  ELSE locals.green_dat

StatementsRun == {locals.ran[i] : i \in 1..Len(locals.ran)}

\* out is g with every sample <= 1e-4 replaced by 1 and the others kept
IsClipOf(out, g) ==
  /\ Shape(out) = Shape(g)
  /\ \A r \in 1..Len(g) : \A c \in 1..Len(g[r]) :
       out[r][c] = (IF g[r][c] <= Epsilon THEN ClipFill ELSE g[r][c])

\* C1: once the clipping step of make_RGB_data has run, each of the bands
\* red, green and blue holds its samples with every value <= 1e-4 replaced
\* by the fill value 1 and every other value unchanged.
C1_ClipEveryBand ==
  CollaboratorsOK =>
    \A band \in BandNames :
      /\ band \in locals.bound
      /\ <<"clip", band>> \in StatementsRun
      /\ (\A b \in BandNames : <<"sqrt", b>> \notin StatementsRun)
           => IsClipOf(locals[band], BandInput(band))

\* C2: for three 4x4 bands of constant red = 4, blue = 16 and green = 0 the
\* call yields a synthesized green of 2.7 at every pixel and a composite of
\* shape (4, 4, 3).
C2_EndToEndGreen ==
  ( /\ CollaboratorsOK
    /\ BandInput("red_data") = ConstGrid(4, 40000)
    /\ locals.blue_dat = ConstGrid(4, 160000)
    /\ locals.green_dat = ConstGrid(4, 0) )
  => /\ locals.returned
     /\ locals.green_data = ConstGrid(4, 27000)
     /\ Shape(locals.rgb_data) = <<4, 4>>
     /\ \A r \in 1..4 : \A c \in 1..4 : Len(locals.rgb_data[r][c]) = 3

\* C5: every band array the clipping step masks is assigned before it is
\* masked; with a band never assigned the call fails with MissingBandError
\* before any masking.
C5_BandsAssignedBeforeMasking ==
  CollaboratorsOK =>
    \/ BandNames \subseteq locals.bound
    \/ locals.exc = "MissingBandError" /\ locals.ran = <<>>

\* the names of the return statement of line 157
ReturnNames == {"time", "x", "y", "proj_var", "rgb_data"}

\* C6: when the fetches, the resampling and the combine steps succeed the
\* call returns the 5-tuple (time, x, y, projection, rgb data), every name
\* of the return statement being a local the function assigned and the
\* projection being the one computed from the green channel.
C6_ReturnsFiveTuple ==
  CollaboratorsOK =>
    /\ locals.returned
    /\ ReturnNames \subseteq locals.bound
    /\ Len(locals.ret) = 5
    /\ locals.ret[4] = CartopyCrs(green_channel)

C8_ShapeMismatchFirst ==
  ( /\ CollaboratorsOK
    /\ \/ Shape(BandInput("red_data")) # Shape(locals.blue_dat)
       \/ Shape(locals.blue_dat) # Shape(locals.green_dat) )
  => locals.exc = "ShapeMismatchError" /\ locals.ran = <<>>

\* C10: a call of make_RGB_data in which a step failed ends with that
\* failure, returns nothing, leaves no rgb_data bound in the kernel, and the
\* rendering cell receives no composite.
C10_NoPartialComposite ==
  /\ (pc = "raised") => (locals.exc # "none" /\ err = locals.exc)
  /\ (CallOver /\ locals.exc # "none")
       => /\ ~locals.returned
          /\ locals.ret = <<>>
          /\ "rgb_data" \notin globals.bound
          /\ rendered = <<>>

C10_Witness ==
  /\ pc = "cell7"
  /\ locals.exc = "UnboundLocalError"
  /\ <<"clip", "red_data">> \in StatementsRun
  /\ "rgb_data" \notin globals.bound
  /\ rendered = <<>>

(* ------------- the three fetches against given catalogs --------------- *)
\* the smallest dataset contents of a channel
SmallPayload(channel) == CHOOSE p \in Payloads(channel) : Len(p.x) = 2

\* the catalogs of the three channels are drawn and stay as they are while
\* make_RGB_data opens its three datasets
CatalogInit ==
  /\ pc = "open_red"
  /\ locals = NoLocals
  /\ globals = NoGlobals
  /\ err = "none"
  /\ rendered = <<>>
  /\ xrKind \in Kinds
  /\ \E l1 \in Listings, l2 \in Listings, l3 \in Listings :
       server = [ch \in 1..3 |->
                   [listing |-> IF ch = 1 THEN l1 ELSE IF ch = 2 THEN l2 ELSE l3,
                    payload |-> SmallPayload(ch)]]
  /\ radar = NoRadar

CatalogNext ==
  \/ OpenRed
  \/ OpenBlue
  \/ OpenGreen

CatalogSpec == CatalogInit /\ [][CatalogNext]_vars

\* lines 126-128 have completed
Fetched == {"red_ds", "blue_ds", "green_ds"} \subseteq locals.bound

SameListings ==
  /\ server # <<>>
  /\ server[red_channel].listing = server[blue_channel].listing
  /\ server[blue_channel].listing = server[green_channel].listing

SecondGreatest(l) ==
  CHOOSE t \in {l[i] : i \in 1..Len(l)} :
    Cardinality({j \in 1..Len(l) : l[j] > t}) = 1

\* C13: with idx = -2 open_dataset selects the capture with the second
\* greatest capture time of the catalog, whatever order the catalog lists
\* its datasets in.
C13_NextToMostRecent ==
  (server # <<>> /\ "red_ds" \in locals.bound)
    => locals.red_ds.time = SecondGreatest(server[red_channel].listing)

(* ================= the CompositeRadar notebook ======================== *)
\* a capture: its date <<year, month, day>> and its minute of the day
Captures ==
  {[date |-> d, minute |-> m] :
     d \in {<<2018, 3, 2>>, <<2018, 10, 1>>}, m \in {65, 599, 1050}}

\* a is an earlier capture than b
Earlier(a, b) ==
  \/ a.date[1] < b.date[1]
  \/ a.date[1] = b.date[1] /\ a.date[2] < b.date[2]
  \/ a.date[1] = b.date[1] /\ a.date[2] = b.date[2] /\ a.date[3] < b.date[3]
  \/ a.date = b.date /\ a.minute < b.minute

\* the characters of n written in w decimal digits, zero-padded
RECURSIVE Digits(_, _)
Digits(n, w) == IF w = 0 THEN <<>> ELSE Append(Digits(n \div 10, w - 1), 48 + (n % 10))

\* the dataset name Level3_Composite_n0r_1km_YYYYMMDD_HHMM.gini of a
\* capture, as its sequence of character codes
DatasetName(c) ==
  <<76, 101, 118, 101, 108, 51, 95, 67, 111, 109, 112, 111, 115, 105, 116, 101, 95,
    110, 48, 114, 95, 49, 107, 109, 95>>
  \o Digits(c.date[1], 4) \o Digits(c.date[2], 2) \o Digits(c.date[3], 2)
  \o <<95>> \o Digits(c.minute \div 60, 2) \o Digits(c.minute % 60, 2)
  \o <<46, 103, 105, 110, 105>>

\* the catalog's datasets in the order the catalog lists them
RadarListings ==
  UNION {{l \in [1..n -> Captures] : \A i, j \in 1..n : i # j => l[i] # l[j]} :
           n \in 0..MaxNames}

\* Python's a < b on strings: the first differing character decides, a
\* proper prefix is the smaller
StrLess(a, b) ==
  \E k \in 1..(Len(b)) :
    /\ \A i \in 1..(k - 1) : i <= Len(a) /\ a[i] = b[i]
    /\ \/ k = Len(a) + 1
       \/ k <= Len(a) /\ a[k] < b[k]

\* list.sort() of distinct strings
PySort(l) ==
  [k \in 1..Len(l) |->
     l[CHOOSE i \in 1..Len(l) : Cardinality({j \in 1..Len(l) : StrLess(l[j], l[i])}) = k - 1]]

\* as NamesLast with the first element taken
NamesLast_First(l) == l[1]

\* names[-1]
NamesLast(l) == l[PyIndex(Len(l), -1)]

\* x[::k]
Stride(q, k) == [i \in 1..((Len(q) + k - 1) \div k) |-> q[(i - 1) * k + 1]]

\* the variables of a composite file: x and y in km, Reflectivity[0] with
\* the sample a where the strides land on even cells, b on odd ones
RadarFiles ==
  {[x |-> [i \in 1..11 |-> i - 1],
    y |-> [i \in 1..ny |-> ny - i],
    Reflectivity |->
      [r \in 1..ny |-> [c \in 1..11 |->
         IF (r - 1) % ystride # 0 \/ (c - 1) % xstride # 0 THEN 99
         ELSE IF (((r - 1) \div ystride) + ((c - 1) \div xstride)) % 2 = 0 THEN a
         ELSE b]]] :
     ny \in {1, 11}, a \in {-31, -30, -29, 5}, b \in {-31, -30, -29, 5}}

\* a cell of the radar notebook that raised
RadarFail(e) ==
  /\ pc' = "radar_raised"
  /\ err' = e
  /\ UNCHANGED <<locals, globals, rendered, xrKind, server>>

\* cell 2 (lines 89-98): the catalog of today's composites is fetched and
\* the names of its datasets are listed and printed
RadarListNames ==
  /\ pc = "radar_cell2"
  /\ \E reachable \in BOOLEAN, listing \in RadarListings :
       IF reachable
       THEN /\ radar' = [radar EXCEPT
                           !.names = [i \in 1..Len(listing) |-> DatasetName(listing[i])],
                           !.printed = [i \in 1..Len(listing) |-> DatasetName(listing[i])]]
            /\ pc' = "radar_cell3"
            /\ UNCHANGED <<locals, globals, err, rendered, xrKind, server>>
       ELSE /\ radar' = [radar EXCEPT !.exc = "HTTPError"]
            /\ RadarFail("HTTPError")

\* cell 3 (lines 119-122): names.sort(); latest = names[-1]
RadarSortLatest ==
  /\ pc = "radar_cell3"
  /\ LET sorted == PySort(radar.names)
     IN  IF Len(sorted) = 0
         THEN /\ radar' = [radar EXCEPT !.names = sorted, !.exc = "IndexError"]
              /\ RadarFail("IndexError")
         ELSE /\ radar' = [radar EXCEPT !.names = sorted, !.latest = NamesLast(sorted)]
              /\ pc' = "radar_cell9"
              /\ UNCHANGED <<locals, globals, err, rendered, xrKind, server>>

\* cells 4-9 (lines 135-269): the latest dataset is opened and its
\* coordinates and reflectivity are subset; samples are masked
RadarGrabData ==
  /\ pc = "radar_cell9"
  /\ \E f \in RadarFiles :
       LET x    == [i \in 1..Len(Stride(f.x, xstride)) |-> Stride(f.x, xstride)[i] * 1000]
           y    == [i \in 1..Len(Stride(f.y, ystride)) |-> Stride(f.y, ystride)[i] * 1000]
           rows == Stride(f.Reflectivity, ystride)
           data == [r \in 1..Len(rows) |-> Stride(rows[r], xstride)]
       IN  radar' = [radar EXCEPT
                       !.x = x, !.y = y, !.data = data,
                       !.mask = [r \in 1..Len(data) |-> [c \in 1..Len(data[r]) |->
                                   data[r][c] <= MaskThreshold]]]
  /\ pc' = "radar_plot"
  /\ UNCHANGED <<locals, globals, err, rendered, xrKind, server>>

RadarInit ==
  /\ pc = "radar_cell2"
  /\ locals = NoLocals
  /\ globals = NoGlobals
  /\ err = "none"
  /\ rendered = <<>>
  /\ xrKind = "Dataset"
  /\ server = <<>>
  /\ radar = NoRadar

RadarNext ==
  \/ RadarListNames
  \/ RadarSortLatest
  \/ RadarGrabData

RadarSpec == RadarInit /\ [][RadarNext]_vars

\* the captures whose names the sorted list holds
NamedCaptures ==
  {c \in Captures : \E i \in 1..Len(radar.names) : radar.names[i] = DatasetName(c)}

\* C12: after names.sort(), names[-1] is the name of the capture with the
\* greatest timestamp of the catalog, whatever order the catalog listed its
\* datasets in.
C12_LatestIsGreatest ==
  (pc \in {"radar_cell9", "radar_plot"})
    => \E c \in NamedCaptures :
         /\ radar.latest = DatasetName(c)
         /\ \A d \in NamedCaptures : d = c \/ Earlier(d, c)

C12_Witness ==
  /\ pc = "radar_cell9"
  /\ Len(radar.printed) >= 2
  /\ radar.printed # radar.names
  /\ radar.latest = radar.printed[1]
  /\ \E c \in NamedCaptures :
       /\ radar.latest = DatasetName(c)
       /\ \A d \in NamedCaptures : d = c \/ Earlier(d, c)

\* C14: the reflectivity samples that are masked are exactly those with a
\* value less than -30 dBz; a sample of -30 or more stays unmasked.
C14_MaskBelowOnly ==
  (pc = "radar_plot")
    => \A r \in 1..Len(radar.data) : \A c \in 1..Len(radar.data[r]) :
         radar.mask[r][c] <=> (radar.data[r][c] < MaskThreshold)

====
